---- MODULE Spec2Model ----
(***************************************************************************)
(* State-machine model of the useSkateboard hook of                        *)
(* src/src/components/SkateboardPreview.tsx: scene lifecycle (initScene /  *)
(* cleanup), the requestAnimationFrame tick with WASD camera locomotion,   *)
(* asynchronous model loading, sticker texture uploads and flipModel.      *)
(*                                                                         *)
(* Numbers.  Unit vectors are fixed point with Unit steps per 1.0, and     *)
(* positions are fixed point with Unit * SpeedDen steps per 1.0, so that   *)
(* addScaledVector(v, +-speed) with speed = 1 / SpeedDen is exact.  A unit *)
(* quaternion is held as an integer 4-tuple <<x, y, z, w>> of any positive *)
(* norm; the orientations used are chosen so that every square root taken  *)
(* by normalize() is exact.                                                *)
(***************************************************************************)
EXTENDS Integers, Sequences, FiniteSets, TLC

\* ---------------------------------------------------------------- bounds
MaxScenes == 2
MaxModels == 2
MaxUploads == 2
MaxTicks == 1
MaxKeyEvents == 2
MaxFlips == 2
MaxBytes == 8
MaxConversions == 2
MaxNodes == 4

\* ------------------------------------------------------ program constants
\* fixed-point steps per 1.0 of a unit vector
Unit == 5 * 5
\* cameraMoveSpeed = 0.05 = 1 / SpeedDen
SpeedDen == 20

SceneIds == 1..MaxScenes
ModelIds == 1..MaxModels
UploadIds == 1..MaxUploads

\* ------------------------------------------------------------ vector math
Vec(x, y, z) == <<x, y, z>>
Dot(a, b) == a[1] * b[1] + a[2] * b[2] + a[3] * b[3]
Cross(a, b) ==
    <<a[2] * b[3] - a[3] * b[2], a[3] * b[1] - a[1] * b[3], a[1] * b[2] - a[2] * b[1]>>
VAdd(a, b) == <<a[1] + b[1], a[2] + b[2], a[3] + b[3]>>
VScale(a, k) == <<a[1] * k, a[2] * k, a[3] * k>>

Origin == <<0, 0, 0>>

\* Math.sqrt on the squared lengths that occur (all of them perfect squares)
ISqrt(n) == CHOOSE r \in 0..n : r * r <= n /\ (r + 1) * (r + 1) > n

\* Vector3.length()
Length(v) == ISqrt(Dot(v, v))

\* Vector3.normalize(): divideScalar(length() || 1); the result is in Unit steps
Normalize(v) ==
    LET len == Length(v)
    IN  IF len = 0 THEN v
        ELSE <<(v[1] * Unit) \div len, (v[2] * Unit) \div len, (v[3] * Unit) \div len>>

QVec(q) == <<q[1], q[2], q[3]>>

\* Vector3.applyQuaternion(q) for q held as an integer quaternion: the rotated
\* vector, scaled by the squared norm of q
ApplyQuaternion(v, q) ==
    LET u == QVec(q)
        w == q[4]
    IN  VAdd(VAdd(VScale(v, w * w - Dot(u, u)), VScale(u, 2 * Dot(u, v))),
             VScale(Cross(u, v), 2 * w))

\* Quaternion product a * b
QMul(a, b) ==
    <<a[4] * b[1] + a[1] * b[4] + a[2] * b[3] - a[3] * b[2],
      a[4] * b[2] - a[1] * b[3] + a[2] * b[4] + a[3] * b[1],
      a[4] * b[3] + a[1] * b[2] - a[2] * b[1] + a[3] * b[4],
      a[4] * b[4] - a[1] * b[1] - a[2] * b[2] - a[3] * b[3]>>

QIdentity == <<0, 0, 0, 1>>
QYaw == <<0, 1, 0, 2>>
QPitch == <<1, 0, 0, 2>>
QRoll == <<0, 0, 1, 2>>
QDown == <<-1, 0, 0, 1>>
QUp == <<1, 0, 0, 1>>

\* orientations the orbit control can leave the camera in
CameraQuats == {QIdentity, QYaw, QRoll, QMul(QYaw, QPitch), QDown, QUp, <<-1, 0, 0, 2>>}

\* the orientation model.rotation.y = Math.PI / 4 gives a loaded model: a turn
\* about y (the angle is rounded to one whose sine and cosine are rational)
ModelLoadQuat == QYaw

MoveKeys == {"w", "a", "s", "d"}
\* KeyboardEvent.key values the window can deliver
EventKeys == {"w", "a", "s", "d", "W", "D", "x"}

\* String.toLowerCase on the key values above
ToLowerCase(k) ==
    CASE k = "W" -> "w"
      [] k = "A" -> "a"
      [] k = "S" -> "s"
      [] k = "D" -> "d"
      [] OTHER -> k

\* the letter a key value names, in either case, or "" for another key
Letter(k) == IF ToLowerCase(k) \in MoveKeys THEN ToLowerCase(k) ELSE ""

\* the orientation the first controls.update() of a new OrbitControls gives the
\* camera: lookAt(target) from the start position, a view along -z pitched
\* down (the pitch is rounded to an orientation of CameraQuats)
CameraLookAt == <<-1, 0, 0, 2>>

\* camera.position.set(0, 2, 5)
CameraStart == <<0, 2 * Unit * SpeedDen, 5 * Unit * SpeedDen>>
\* model.position.set(0, 1, 0)
ModelStart == <<0, 1 * Unit * SpeedDen, 0>>

VARIABLES
    gpu,                \* !!navigator.gpu
    sceneRef,           \* 0 (null) or the id of the current THREE.Scene
    rendererRef,        \* "none", "webgpu" or "webgl"
    rendererReadyRef,
    cleanupRef,         \* TRUE once a cleanup closure is stored
    modelRef,           \* 0 (null) or the id of the cached model
    animationFrameRef,  \* 0 (null) or the callback chain whose frame it names
    keysPressedRef,
    isWebGPUEnabled,
    error,              \* "none" or a message tag
    isLoading,
    modelLoading,
    isBGRAFormat,
    listeners,          \* keydown / keyup / resize bound on window
    frames,             \* callback chains with a frame scheduled
    initAwait,          \* initScene calls awaiting renderer.init(): their scenes
    sceneCount,         \* initScene calls so far
    children,           \* scene id -> deck models attached to it
    cameraPos,
    cameraQuat,
    ticks,              \* tick bodies run so far
    moveFrom,           \* where the current camera was before its last locomotion step
    moveKeys,           \* the held keys that step read ({} before the first)
    keyEvents,          \* key events delivered so far
    lastEvent,          \* letter -> last key event the handlers got ("none", "down", "up")
    lastHandled,        \* letter -> last key event the handlers got since the last teardown
    tornDown,           \* cleanupScene was called after the last initScene call
    load,               \* model id -> "none", "pending", "loaded", "failed"
    loadFile,           \* model id -> the file a pending load reads (1 otherwise)
    modelCount,
    material,           \* model id -> surface -> [map, opacity]
    released,           \* models whose geometry and materials were disposed
    modelQuat,
    modelPos,
    modelSpin,          \* rotation.y increments applied by ticks
    flipLog,            \* flipModel calls on the current model since it last changed otherwise
    flips,
    upload,             \* upload id -> record of one loadTopTexture / loadBottomTexture call
    uploadCount,
    resolved,           \* <<model, surface, image>> of texture loads in the order they resolved
    disposedTex,        \* images whose texture was disposed
    texMatrix,          \* image -> texture.matrix of its texture
    imageData,          \* the data of the ImageData handed to convertBGRAtoRGBA
    sourceData,         \* that data as getImageData returned it
    conversions,        \* convertBGRAtoRGBA calls on it so far
    searchModel,        \* the scene graph handed to findMeshInModel
    searchName,         \* the name fragment handed to it
    searched,           \* findMeshInModel has returned
    targetMesh          \* what it returned: a node, or 0 for null

vars == <<gpu, sceneRef, rendererRef, rendererReadyRef, cleanupRef, modelRef,
          animationFrameRef, keysPressedRef, isWebGPUEnabled, error, isLoading,
          modelLoading, isBGRAFormat, listeners, frames, initAwait, sceneCount,
          children, cameraPos, cameraQuat, ticks, moveFrom, moveKeys, keyEvents,
          lastEvent, lastHandled, tornDown, load, loadFile, modelCount,
          material, released, modelQuat, modelPos, modelSpin, flipLog, flips,
          upload, uploadCount, resolved, disposedTex, texMatrix, imageData, sourceData,
          conversions, searchModel, searchName, searched, targetMesh>>

\* the inputs and results of the pure helpers
pureVars == <<imageData, sourceData, conversions, searchModel, searchName, searched, targetMesh>>

sceneVars == <<sceneRef, rendererRef, rendererReadyRef, cleanupRef, animationFrameRef,
               isWebGPUEnabled, listeners, frames, initAwait, sceneCount, tornDown>>
keyVars == <<keysPressedRef, keyEvents, lastEvent, lastHandled>>
cameraVars == <<cameraPos, cameraQuat, ticks, moveFrom, moveKeys>>
loadVars == <<load, loadFile, modelCount, modelLoading>>
poseVars == <<modelQuat, modelPos, modelSpin, flipLog, flips>>
texVars == <<upload, uploadCount, resolved, disposedTex, texMatrix, isLoading, isBGRAFormat>>

\* -------------------------------------------------------- scene lifecycle
NoKeyEvents == [k \in MoveKeys |-> "none"]

\* cancelAnimationFrame(animationFrameRef.current), when the ref is set
CancelFrame(fs, ref) == IF ref # 0 THEN fs \ {ref} ELSE fs

\* what keysPressedRef.current.clear() leaves
ClearKeys(keys) == {}

\* the scene traverse of cleanup: every mesh of the current scene is disposed
ReleasedByCleanup == IF sceneRef = 0 THEN released ELSE released \cup children[sceneRef]

\* handleKeyDown
HandleKeyDown(keys, k) ==
    IF k \in {"w", "a", "s", "d", "W", "A", "S", "D"}
    THEN keys \cup {ToLowerCase(k)}
    ELSE keys

\* a handleKeyUp that deletes the key value as delivered
HandleKeyUpAsTyped(keys, k) ==
    IF k \in {"w", "a", "s", "d", "W", "A", "S", "D"}
    THEN keys \ {k}
    ELSE keys

\* handleKeyUp
HandleKeyUp(keys, k) ==
    IF k \in {"w", "a", "s", "d", "W", "A", "S", "D"}
    THEN keys \ {ToLowerCase(k)}
    ELSE keys

\* the horizontal-projected forward vector of animate
CameraForward(q) ==
    LET f == Normalize(ApplyQuaternion(Vec(0, 0, -1), q))
    IN  Normalize(<<f[1], 0, f[3]>>)

\* a left vector that keeps its vertical component
CameraLeftUnprojected(q) == Normalize(ApplyQuaternion(Vec(-1, 0, 0), q))

\* the horizontal-projected left vector of animate
CameraLeft(q) ==
    LET l == Normalize(ApplyQuaternion(Vec(-1, 0, 0), q))
    IN  Normalize(<<l[1], 0, l[3]>>)

\* Vector3.addScaledVector(v, sign * speed), in position steps
AddScaledVector(p, v, sign) == VAdd(p, VScale(v, sign))

\* a locomotion step that re-normalises the summed direction
MoveCameraNormalized(p, q, keys) ==
    LET f == CameraForward(q)
        l == CameraLeft(q)
        d1 == IF "w" \in keys THEN f ELSE Origin
        d2 == IF "s" \in keys THEN VAdd(d1, VScale(f, -1)) ELSE d1
        d3 == IF "a" \in keys THEN VAdd(d2, l) ELSE d2
        d4 == IF "d" \in keys THEN VAdd(d3, VScale(l, -1)) ELSE d3
    IN  VAdd(p, Normalize(d4))

\* the four key tests of animate, in order
MoveCamera(p, q, keys) ==
    LET f == CameraForward(q)
        l == CameraLeft(q)
        p1 == IF "w" \in keys THEN AddScaledVector(p, f, 1) ELSE p
        p2 == IF "s" \in keys THEN AddScaledVector(p1, f, -1) ELSE p1
        p3 == IF "a" \in keys THEN AddScaledVector(p2, l, 1) ELSE p2
        p4 == IF "d" \in keys THEN AddScaledVector(p3, l, -1) ELSE p3
    IN  p4

\* modelRef.current && (modelRef.current.rotation.y += 0.00001)
SpinModel(m) ==
    IF m = 0
    THEN UNCHANGED <<modelSpin, flipLog>>
    ELSE /\ modelSpin' = [modelSpin EXCEPT ![m] = @ + 1]
         /\ flipLog' = [flipLog EXCEPT ![m] = <<>>]

\* the body of animate after its rendererReady / camera test: the orbit
\* control leaves the camera in orientation q, then the keys move it
TickBody(q, keys, m) ==
    /\ cameraQuat' = q
    /\ moveFrom' = cameraPos
    /\ moveKeys' = keys
    /\ cameraPos' = MoveCamera(cameraPos, q, keys)
    /\ SpinModel(m)

\* the part of initScene after the renderer is chosen, for the call that made
\* scene s; kind is the renderer it got.  ks, fs, m are the held keys, the
\* scheduled chains and the cached model as the earlier part left them.
FinishInit(s, kind, ks, fs, m) ==
    /\ rendererRef' = kind
    /\ rendererReadyRef' = TRUE
    /\ listeners' = TRUE
    /\ frames' = fs \cup {s}
    /\ animationFrameRef' = s
    /\ keysPressedRef' = ks
    /\ modelRef' = m
    /\ cleanupRef' = TRUE
    /\ ticks' = ticks

\* initScene up to the renderer choice; without navigator.gpu nothing is
\* awaited and the call runs to its end in the same step
InitScene ==
    /\ sceneCount < MaxScenes
    /\ LET s == sceneCount + 1
           ks == IF cleanupRef THEN ClearKeys(keysPressedRef) ELSE keysPressedRef
           fs == IF cleanupRef THEN CancelFrame(frames, animationFrameRef) ELSE frames
           m == IF cleanupRef THEN 0 ELSE modelRef
       IN  /\ sceneCount' = s
           /\ sceneRef' = s
           /\ isWebGPUEnabled' = gpu
           /\ tornDown' = FALSE
           /\ released' = IF cleanupRef THEN ReleasedByCleanup ELSE released
           /\ lastHandled' = IF cleanupRef THEN NoKeyEvents ELSE lastHandled
           /\ IF gpu
              THEN /\ initAwait' = initAwait \cup {s}
                   /\ rendererReadyRef' = FALSE
                   /\ listeners' = IF cleanupRef THEN FALSE ELSE listeners
                   /\ frames' = fs
                   /\ keysPressedRef' = ks
                   /\ modelRef' = m
                   /\ cameraPos' = CameraStart
                   /\ cameraQuat' = QIdentity
                   /\ moveFrom' = CameraStart
                   /\ moveKeys' = {}
                   /\ UNCHANGED <<rendererRef, cleanupRef, animationFrameRef, ticks,
                                  modelSpin, flipLog>>
              ELSE /\ FinishInit(s, "webgl", ks, fs, m)
                   /\ cameraQuat' = CameraLookAt
                   /\ moveFrom' = CameraStart
                   /\ moveKeys' = ks
                   /\ cameraPos' = MoveCamera(CameraStart, CameraLookAt, ks)
                   /\ SpinModel(m)
                   /\ UNCHANGED initAwait
    /\ UNCHANGED <<gpu, pureVars, error, children, keyEvents, lastEvent>>
    /\ UNCHANGED <<loadVars, material, modelQuat, modelPos, flips, texVars>>

\* renderer.init() settles for the initScene call that made scene s:
\* fulfilled keeps the WebGPU renderer, rejected falls back to WebGL
InitResume(s, ok) ==
    /\ s \in initAwait
    /\ initAwait' = initAwait \ {s}
    /\ FinishInit(s, IF ok THEN "webgpu" ELSE "webgl", keysPressedRef, frames, modelRef)
    /\ TickBody(CameraLookAt, keysPressedRef, modelRef)
    /\ UNCHANGED <<gpu, pureVars, sceneRef, isWebGPUEnabled, sceneCount, tornDown, error, children,
                   keyEvents, lastEvent, lastHandled, released>>
    /\ UNCHANGED <<loadVars, material, modelQuat, modelPos, flips, texVars>>

\* cleanupScene: cleanupRef.current?.()
CleanupScene ==
    /\ tornDown' = (sceneCount > 0)
    /\ IF cleanupRef
       THEN /\ frames' = CancelFrame(frames, animationFrameRef)
            /\ released' = ReleasedByCleanup
            /\ listeners' = FALSE
            /\ modelRef' = 0
            /\ rendererReadyRef' = FALSE
            /\ keysPressedRef' = ClearKeys(keysPressedRef)
            /\ lastHandled' = NoKeyEvents
       ELSE UNCHANGED <<frames, released, listeners, modelRef, rendererReadyRef,
                        keysPressedRef, lastHandled>>
    /\ UNCHANGED <<gpu, pureVars, sceneRef, rendererRef, cleanupRef, animationFrameRef,
                   isWebGPUEnabled, initAwait, sceneCount, error, children,
                   keyEvents, lastEvent>>
    /\ UNCHANGED <<cameraVars, loadVars, material, poseVars, texVars>>

\* one requestAnimationFrame callback of chain c: animate
Tick(c) ==
    /\ c \in frames
    /\ ticks < MaxTicks
    /\ animationFrameRef' = c
    /\ IF rendererReadyRef /\ sceneRef # 0
       THEN /\ ticks' = ticks + 1
            /\ \E q \in CameraQuats : TickBody(q, keysPressedRef, modelRef)
       ELSE UNCHANGED <<cameraVars, modelSpin, flipLog>>
    /\ UNCHANGED <<gpu, pureVars, sceneRef, rendererRef, rendererReadyRef, cleanupRef, modelRef,
                   isWebGPUEnabled, listeners, frames, initAwait, sceneCount, tornDown,
                   error, children, released>>
    /\ UNCHANGED <<keyVars, loadVars, material, modelQuat, modelPos, flips, texVars>>

\* a keydown event for key k on the window
KeyDown(k) ==
    /\ keyEvents < MaxKeyEvents
    /\ keyEvents' = keyEvents + 1
    /\ IF listeners
       THEN /\ keysPressedRef' = HandleKeyDown(keysPressedRef, k)
            /\ lastEvent' = IF Letter(k) = "" THEN lastEvent
                            ELSE [lastEvent EXCEPT ![Letter(k)] = "down"]
            /\ lastHandled' = IF Letter(k) = "" THEN lastHandled
                              ELSE [lastHandled EXCEPT ![Letter(k)] = "down"]
       ELSE UNCHANGED <<keysPressedRef, lastEvent, lastHandled>>
    /\ UNCHANGED <<gpu, pureVars, modelRef, error, children, released, material>>
    /\ UNCHANGED <<sceneVars, cameraVars, loadVars, poseVars, texVars>>

\* a keyup event for key k on the window
KeyUp(k) ==
    /\ keyEvents < MaxKeyEvents
    /\ keyEvents' = keyEvents + 1
    /\ IF listeners
       THEN /\ keysPressedRef' = HandleKeyUp(keysPressedRef, k)
            /\ lastEvent' = IF Letter(k) = "" THEN lastEvent
                            ELSE [lastEvent EXCEPT ![Letter(k)] = "up"]
            /\ lastHandled' = IF Letter(k) = "" THEN lastHandled
                              ELSE [lastHandled EXCEPT ![Letter(k)] = "up"]
       ELSE UNCHANGED <<keysPressedRef, lastEvent, lastHandled>>
    /\ UNCHANGED <<gpu, pureVars, modelRef, error, children, released, material>>
    /\ UNCHANGED <<sceneVars, cameraVars, loadVars, poseVars, texVars>>

\* ----------------------------------------------------------- model files
\* Object3D.name values, as character sequences
NameScene == <<"S", "c", "e", "n", "e">>
NameBase == <<"b", "a", "s", "e", "_", "m", "e", "s", "h">>
NameTop == <<"t", "o", "p", "_", "s", "t", "i", "c", "k", "e", "r", "_", "L">>
NameBottom == <<"b", "o", "t", "t", "o", "m", "_", "s", "t", "i", "c", "k", "e", "r">>
NameWheel == <<"w", "h", "e", "e", "l">>

\* the name fragments loadSkateboardModel looks for
FragBase == <<"b", "a", "s", "e">>
FragTop == <<"t", "o", "p", "_", "s", "t", "i", "c", "k", "e", "r">>
FragBottom == <<"b", "o", "t", "t", "o", "m", "_", "s", "t", "i", "c", "k", "e", "r">>

Node(name, mesh, kids) == [name |-> name, mesh |-> mesh, kids |-> kids]

\* scene graphs a GLB / GLTF file can hold: node 1 is gltf.scene, kids are
\* the indices of a node's children in order
GraphFull ==
    <<Node(NameScene, FALSE, <<2, 5>>), Node(NameBase, TRUE, <<3, 4>>),
      Node(NameTop, TRUE, <<>>), Node(NameBottom, TRUE, <<>>), Node(NameWheel, TRUE, <<>>)>>
GraphNoBottom ==
    <<Node(NameScene, FALSE, <<2, 3, 4>>), Node(NameBase, TRUE, <<>>),
      Node(NameTop, TRUE, <<>>), Node(NameWheel, TRUE, <<>>)>>
GraphNoTop ==
    <<Node(NameScene, FALSE, <<2, 3>>), Node(NameBase, TRUE, <<>>),
      Node(NameBottom, TRUE, <<>>)>>
GraphNoBase ==
    <<Node(NameScene, FALSE, <<2, 3>>), Node(NameTop, TRUE, <<>>),
      Node(NameBottom, TRUE, <<>>)>>
\* a bottom_sticker node that is a plain Object3D, not a Mesh
GraphGroupBottom ==
    <<Node(NameScene, FALSE, <<2, 3, 4>>), Node(NameBase, TRUE, <<>>),
      Node(NameTop, TRUE, <<>>), Node(NameBottom, FALSE, <<>>)>>

ModelFiles == <<GraphFull, GraphNoBottom, GraphNoTop, GraphNoBase, GraphGroupBottom>>
FileIds == 1..Len(ModelFiles)

\* String.includes
Includes(name, frag) ==
    \E i \in 0..(Len(name) - Len(frag)) : SubSeq(name, i + 1, i + Len(frag)) = frag

RECURSIVE Traverse(_, _)
\* Object3D.traverse: the nodes of the subtree of n, in visiting order
Traverse(g, n) ==
    LET RECURSIVE Kids(_)
        Kids(i) == IF i > Len(g[n].kids) THEN <<>>
                   ELSE Traverse(g, g[n].kids[i]) \o Kids(i + 1)
    IN  <<n>> \o Kids(1)

\* a findMeshInModel that keeps the first mesh it meets
FindFirstMeshInModel(g, frag) ==
    LET order == Traverse(g, 1)
        hits == {i \in 1..Len(order) : g[order[i]].mesh /\ Includes(g[order[i]].name, frag)}
    IN  IF hits = {} THEN 0
        ELSE order[CHOOSE i \in hits : \A j \in hits : i <= j]

\* findMeshInModel: the node assigned last to targetMesh, 0 for null
FindMeshInModel(g, frag) ==
    LET order == Traverse(g, 1)
        hits == {i \in 1..Len(order) : g[order[i]].mesh /\ Includes(g[order[i]].name, frag)}
    IN  IF hits = {} THEN 0
        ELSE order[CHOOSE i \in hits : \A j \in hits : j <= i]

\* the test loadSkateboardModel throws on
HasAllMeshes(g) ==
    /\ FindMeshInModel(g, FragBase) # 0
    /\ FindMeshInModel(g, FragTop) # 0
    /\ FindMeshInModel(g, FragBottom) # 0

\* names and name fragments for graphs of any shape
ShortNames == {<<"a", "t", "s">>, <<"s", "t">>}
ShortFrags == {<<"t", "s">>, <<"s">>, <<"a", "s">>}

RECURSIVE Ascending(_)
\* the members of a set of node indices, smallest first
Ascending(S) ==
    IF S = {} THEN <<>>
    ELSE LET m == CHOOSE x \in S : \A y \in S : x <= y
         IN  <<m>> \o Ascending(S \ {m})

Reversed(q) == [i \in 1..Len(q) |-> q[Len(q) + 1 - i]]

\* the graph of n nodes in which node i > 1 is a child of par[i]; a node's
\* children stand in index order, or in the opposite order when rev
GraphOf(n, par, names, meshes, rev) ==
    [i \in 1..n |->
        LET kids == Ascending({j \in 2..n : par[j] = i})
        IN  Node(names[i], meshes[i], IF rev THEN Reversed(kids) ELSE kids)]

\* g is a scene graph of up to MaxNodes nodes under a Group root
IsGraph(g) ==
    \E n \in 1..MaxNodes :
        \E par \in [2..n -> 1..n], names \in [1..n -> ShortNames],
           meshes \in [1..n -> BOOLEAN], rev \in BOOLEAN :
            /\ \A i \in 2..n : par[i] < i
            /\ ~meshes[1]
            /\ g = GraphOf(n, par, names, meshes, rev)

\* a findMeshInModel(model, name) call
FindMesh ==
    /\ ~searched
    /\ searched' = TRUE
    /\ targetMesh' = FindMeshInModel(searchModel, searchName)
    /\ UNCHANGED <<gpu, imageData, sourceData, conversions, searchModel, searchName>>
    /\ UNCHANGED <<sceneVars, keyVars, cameraVars, loadVars, poseVars, texVars>>
    /\ UNCHANGED <<modelRef, error, children, released, material>>

\* ---------------------------------------------------------- model loading
Surfaces == {"top", "bottom"}

\* a sticker material left opaque at load
StickerMaterialOpaque == [map |-> 0, opacity |-> 1]

\* a sticker material as loadSkateboardModel leaves it: opacity 0, no image
StickerMaterialAtLoad == [map |-> 0, opacity |-> 0]

\* loadSkateboardModel up to its await, for file f
LoadSkateboardModel(f) ==
    /\ modelCount < MaxModels
    /\ IF sceneRef = 0 \/ ~rendererReadyRef
       THEN /\ error' = "sceneNotInit"
            /\ UNCHANGED <<modelRef, children, released, loadVars>>
       ELSE /\ LET m == modelCount + 1
               IN  /\ modelCount' = m
                   /\ load' = [load EXCEPT ![m] = "pending"]
                   /\ loadFile' = [loadFile EXCEPT ![m] = f]
            /\ IF modelRef # 0
               THEN /\ children' = [children EXCEPT ![sceneRef] = @ \ {modelRef}]
                    /\ released' = released \cup {modelRef}
                    /\ modelRef' = 0
               ELSE UNCHANGED <<children, released, modelRef>>
            /\ modelLoading' = TRUE
            /\ error' = "none"
    /\ UNCHANGED <<gpu, pureVars, material>>
    /\ UNCHANGED <<sceneVars, keyVars, cameraVars, poseVars, texVars>>

\* the loader settles for model m: fulfilled (ok) runs the rest of the try
\* block, rejected runs the catch block
LoadSettle(m, ok) ==
    /\ load[m] = "pending"
    /\ modelLoading' = FALSE
    /\ IF ok /\ HasAllMeshes(ModelFiles[loadFile[m]])
       THEN /\ load' = [load EXCEPT ![m] = "loaded"]
            /\ material' = [material EXCEPT ![m] = [s \in Surfaces |-> StickerMaterialAtLoad]]
            /\ modelRef' = m
            /\ children' = [children EXCEPT ![sceneRef] = @ \cup {m}]
            /\ modelQuat' = [modelQuat EXCEPT ![m] = ModelLoadQuat]
            /\ modelPos' = [modelPos EXCEPT ![m] = ModelStart]
            /\ UNCHANGED error
       ELSE /\ load' = [load EXCEPT ![m] = "failed"]
            /\ error' = "modelLoadFailed"
            /\ UNCHANGED <<material, modelRef, children, modelQuat, modelPos>>
    /\ loadFile' = [loadFile EXCEPT ![m] = 1]
    /\ UNCHANGED <<gpu, pureVars, released, modelCount, modelSpin, flipLog, flips>>
    /\ UNCHANGED <<sceneVars, keyVars, cameraVars, texVars>>

\* ------------------------------------------------------------- flipModel
Axes == {"x", "y", "z"}

\* localAxis.set(...) of the switch in flipModel
LocalAxis(axis) ==
    CASE axis = "x" -> Vec(1, 0, 0)
      [] axis = "y" -> Vec(0, 1, 0)
      [] axis = "z" -> Vec(0, 0, 1)

\* makeRotationAxis(a, Math.PI) applied to a point p, for a in Unit steps:
\* 2 a (a . p) - p
RotateHalfTurn(a, p) ==
    LET d == Dot(a, p)
    IN  <<(2 * a[1] * d) \div (Unit * Unit) - p[1],
          (2 * a[2] * d) \div (Unit * Unit) - p[2],
          (2 * a[3] * d) \div (Unit * Unit) - p[3]>>

\* Object3D.applyMatrix4 with the half-turn matrix about a: the object's matrix
\* is premultiplied and decomposed again into position and quaternion.  The
\* sign decompose gives the quaternion is not modelled: q and -q are one
\* orientation.
ApplyMatrix4(a, p, q) ==
    LET r == QMul(<<a[1], a[2], a[3], 0>>, q)
    IN  [pos |-> RotateHalfTurn(a, p),
         quat |-> <<r[1] \div Unit, r[2] \div Unit, r[3] \div Unit, r[4] \div Unit>>]

\* a flip that rotates the model where it stands, about the world origin
FlipPoseInPlace(p, q, axis) ==
    LET worldAxis == Normalize(ApplyQuaternion(LocalAxis(axis), q))
    IN  ApplyMatrix4(worldAxis, p, q)

\* the pose flipModel leaves a model of position p and quaternion q in
FlipPose(p, q, axis) ==
    LET worldAxis == Normalize(ApplyQuaternion(LocalAxis(axis), q))
        modelPosition == p
        turned == ApplyMatrix4(worldAxis, Origin, q)
    IN  [pos |-> modelPosition,
         quat |-> turned.quat]

\* flipModel(axis)
FlipModel(axis) ==
    /\ flips < MaxFlips
    /\ flips' = flips + 1
    /\ IF modelRef = 0
       THEN /\ error' = "flipNoModel"
            /\ UNCHANGED <<modelQuat, modelPos, flipLog>>
       ELSE LET m == modelRef
                pose == FlipPose(modelPos[m], modelQuat[m], axis)
            IN  /\ modelPos' = [modelPos EXCEPT ![m] = pose.pos]
                /\ modelQuat' = [modelQuat EXCEPT ![m] = pose.quat]
                /\ flipLog' = [flipLog EXCEPT ![m] =
                       Append(@, [axis |-> axis, quat |-> modelQuat[m], pos |-> modelPos[m]])]
                /\ error' = "none"
    /\ UNCHANGED <<gpu, pureVars, modelRef, children, released, material, modelSpin>>
    /\ UNCHANGED <<sceneVars, keyVars, cameraVars, loadVars, texVars>>

\* ---------------------------------------------------------- UV transforms
\* texture coordinates, scales, offsets and the entries of a Matrix3 are fixed
\* point with Den steps per 1.0; every product that occurs is a whole number
\* of steps.  A Matrix3 whose last row is 0 0 1 is held as <<a, b, c, d, e, f>>:
\* u' = a u + b v + c, v' = d u + e v + f.
Den == 10000
TopScaleX == 10100
TopScaleY == 37350
BottomScaleX == 10100
BottomScaleY == 41000
BottomShiftY == 450
Half == Den \div 2
\* Math.PI / 2, counted in quarter turns
QuarterTurn == 1

\* Math.cos and Math.sin of a number of quarter turns, the rounding error of
\* Math.PI left out
Cos(r) == CASE r % 4 = 0 -> 1 [] r % 4 = 2 -> -1 [] OTHER -> 0
Sin(r) == CASE r % 4 = 1 -> 1 [] r % 4 = 3 -> -1 [] OTHER -> 0

\* Matrix3.identity()
Identity3 == <<Den, 0, 0, 0, Den, 0>>

\* Matrix3.translate(tx, ty): premultiplies by the translation
Translate(m, tx, ty) == <<m[1], m[2], m[3] + tx, m[4], m[5], m[6] + ty>>

\* Matrix3.rotate(theta): premultiplies by [c s; -s c]
Rotate(m, r) ==
    LET c == Cos(r)
        s == Sin(r)
    IN  <<c * m[1] + s * m[4], c * m[2] + s * m[5], c * m[3] + s * m[6],
          (-s) * m[1] + c * m[4], (-s) * m[2] + c * m[5], (-s) * m[3] + c * m[6]>>

\* Matrix3.scale(sx, sy): premultiplies by the scaling
Scale(m, sx, sy) ==
    <<(sx * m[1]) \div Den, (sx * m[2]) \div Den, (sx * m[3]) \div Den,
      (sy * m[4]) \div Den, (sy * m[5]) \div Den, (sy * m[6]) \div Den>>

\* Matrix3.setUvTransform(tx, ty, sx, sy, rotation, cx, cy)
SetUvTransform(tx, ty, sx, sy, r, cx, cy) ==
    LET c == Cos(r)
        s == Sin(r)
    IN  <<sx * c, sx * s, ((-sx) * (c * cx + s * cy)) \div Den + cx + tx,
          (-sy) * s, sy * c, ((-sy) * ((-s) * cx + c * cy)) \div Den + cy + ty>>

\* the texture coordinate a texture.matrix m sends the coordinate p to
TransformUv(m, p) ==
    <<(m[1] * p[1] + m[2] * p[2]) \div Den + m[3],
      (m[4] * p[1] + m[5] * p[2]) \div Den + m[6]>>

\* a top transform that leaves the offsets to the pivot
TextureMatrixPivotOnly(isBottom) ==
    IF isBottom
    THEN Translate(Scale(Rotate(Translate(Identity3, -Half, -Half), QuarterTurn),
                         BottomScaleX, BottomScaleY),
                   Half, BottomShiftY)
    ELSE SetUvTransform(0, 0, TopScaleX, TopScaleY, QuarterTurn, Half, Half)

\* a bottom transform that scales before it rotates
TextureMatrixScaleFirst(isBottom) ==
    IF isBottom
    THEN Translate(Rotate(Scale(Translate(Identity3, -Half, -Half),
                                BottomScaleX, BottomScaleY), QuarterTurn),
                   Half, BottomShiftY)
    ELSE SetUvTransform(Half - TopScaleX \div 2, Half - TopScaleY \div 2,
                        TopScaleX, TopScaleY, QuarterTurn, Half, Half)

\* texture.matrix as the onLoad callback of loadTextureFromUrl builds it
TextureMatrix(isBottom) ==
    IF isBottom
    THEN Translate(Scale(Rotate(Translate(Identity3, -Half, -Half), QuarterTurn),
                         BottomScaleX, BottomScaleY),
                   Half, BottomShiftY)
    ELSE SetUvTransform(Half - TopScaleX \div 2, Half - TopScaleY \div 2,
                        TopScaleX, TopScaleY, QuarterTurn, Half, Half)

\* ------------------------------------------------------- texture uploads
\* upscaled: the image is the one getUpscaledImage returned
NoUpload == [stage |-> "none", surface |-> "top", bgra |-> FALSE, model |-> 0, upscaled |-> FALSE]

\* a callback that keeps the image of the upload started last
ApplyTextureNewest(mat, img) ==
    IF mat.map > img THEN mat ELSE [map |-> img, opacity |-> 1]

\* the material once loadTextureFromUrl's onLoad callback has run for image img
ApplyTexture(mat, img) == [map |-> img, opacity |-> 1]

\* a loadTopTexture / loadBottomTexture that raises the loading flag before it
\* looks for the model
LoadTextureLoadingFirst(surface) ==
    /\ uploadCount < MaxUploads
    /\ isLoading' = TRUE
    /\ IF modelRef = 0
       THEN /\ error' = "noModel"
            /\ UNCHANGED <<upload, uploadCount>>
       ELSE /\ uploadCount' = uploadCount + 1
            /\ upload' = [upload EXCEPT ![uploadCount + 1] =
                   [stage |-> "read", surface |-> surface, bgra |-> isBGRAFormat, model |-> 0,
                    upscaled |-> FALSE]]
            /\ UNCHANGED error
    /\ UNCHANGED <<gpu, pureVars, modelRef, children, released, material, resolved, disposedTex, texMatrix,
                   isBGRAFormat>>
    /\ UNCHANGED <<sceneVars, keyVars, cameraVars, loadVars, poseVars>>

\* loadTopTexture / loadBottomTexture up to reader.readAsDataURL
LoadTexture(surface) ==
    /\ uploadCount < MaxUploads
    /\ IF modelRef = 0
       THEN /\ error' = "noModel"
            /\ UNCHANGED <<upload, uploadCount, isLoading>>
       ELSE /\ uploadCount' = uploadCount + 1
            /\ upload' = [upload EXCEPT ![uploadCount + 1] =
                   [stage |-> "read", surface |-> surface, bgra |-> isBGRAFormat, model |-> 0,
                    upscaled |-> FALSE]]
            /\ isLoading' = TRUE
            /\ UNCHANGED error
    /\ UNCHANGED <<gpu, pureVars, modelRef, children, released, material, resolved, disposedTex, texMatrix,
                   isBGRAFormat>>
    /\ UNCHANGED <<sceneVars, keyVars, cameraVars, loadVars, poseVars>>

\* the BGRA checkbox
SetIsBGRAFormat(b) ==
    /\ isBGRAFormat # b
    /\ isBGRAFormat' = b
    /\ UNCHANGED <<gpu, pureVars, modelRef, error, children, released, material, upload, uploadCount,
                   resolved, disposedTex, texMatrix, isLoading>>
    /\ UNCHANGED <<sceneVars, keyVars, cameraVars, loadVars, poseVars>>

\* a reader.onload that goes by navigator.gpu being there, not by the renderer
\* in use
ReadSettleByAvailability(u, outcome) ==
    /\ upload[u].stage = "read"
    /\ CASE outcome = "error" ->
              /\ error' = "readError"
              /\ isLoading' = FALSE
              /\ upload' = [upload EXCEPT ![u].stage = "failed"]
         [] outcome = "empty" ->
              /\ error' = "readFailed"
              /\ isLoading' = FALSE
              /\ upload' = [upload EXCEPT ![u].stage = "failed"]
         [] outcome = "ok" /\ modelRef = 0 ->
              \* (modelRef.current as any).topStickerMaterial throws a TypeError
              \* that nothing catches
              /\ upload' = [upload EXCEPT ![u].stage = "crashed"]
              /\ UNCHANGED <<error, isLoading>>
         [] outcome = "ok" /\ modelRef # 0 /\ upload[u].bgra ->
              /\ upload' = [upload EXCEPT ![u].stage = "decode", ![u].model = modelRef]
              /\ UNCHANGED <<error, isLoading>>
         [] outcome = "ok" /\ modelRef # 0 /\ ~upload[u].bgra
               /\ upload[u].surface = "top" /\ isWebGPUEnabled ->
              /\ upload' = [upload EXCEPT ![u].stage = "upscale", ![u].model = modelRef]
              /\ UNCHANGED <<error, isLoading>>
         [] OTHER ->
              /\ upload' = [upload EXCEPT ![u].stage = "texload", ![u].model = modelRef]
              /\ isLoading' = FALSE
              /\ UNCHANGED error
    /\ UNCHANGED <<gpu, pureVars, modelRef, children, released, material, uploadCount, resolved,
                   disposedTex, texMatrix, isBGRAFormat>>
    /\ UNCHANGED <<sceneVars, keyVars, cameraVars, loadVars, poseVars>>

\* the FileReader of upload u settles: "error" is reader.onerror, "empty" is
\* reader.onload without a result, "ok" is reader.onload with the data URL
ReadSettle(u, outcome) ==
    /\ upload[u].stage = "read"
    /\ CASE outcome = "error" ->
              /\ error' = "readError"
              /\ isLoading' = FALSE
              /\ upload' = [upload EXCEPT ![u].stage = "failed"]
         [] outcome = "empty" ->
              /\ error' = "readFailed"
              /\ isLoading' = FALSE
              /\ upload' = [upload EXCEPT ![u].stage = "failed"]
         [] outcome = "ok" /\ modelRef = 0 ->
              \* (modelRef.current as any).topStickerMaterial throws a TypeError
              \* that nothing catches
              /\ upload' = [upload EXCEPT ![u].stage = "crashed"]
              /\ UNCHANGED <<error, isLoading>>
         [] outcome = "ok" /\ modelRef # 0 /\ upload[u].bgra ->
              /\ upload' = [upload EXCEPT ![u].stage = "decode", ![u].model = modelRef]
              /\ UNCHANGED <<error, isLoading>>
         [] outcome = "ok" /\ modelRef # 0 /\ ~upload[u].bgra
               /\ upload[u].surface = "top" /\ rendererRef = "webgpu" ->
              /\ upload' = [upload EXCEPT ![u].stage = "upscale", ![u].model = modelRef]
              /\ UNCHANGED <<error, isLoading>>
         [] OTHER ->
              /\ upload' = [upload EXCEPT ![u].stage = "texload", ![u].model = modelRef]
              /\ isLoading' = FALSE
              /\ UNCHANGED error
    /\ UNCHANGED <<gpu, pureVars, modelRef, children, released, material, uploadCount, resolved,
                   disposedTex, texMatrix, isBGRAFormat>>
    /\ UNCHANGED <<sceneVars, keyVars, cameraVars, loadVars, poseVars>>

\* the Image of a BGRA upload settles: "error" is img.onerror, "noctx" is
\* img.onload with getContext('2d') null, "ok" is img.onload to its end
DecodeSettle(u, outcome) ==
    /\ upload[u].stage = "decode"
    /\ isLoading' = FALSE
    /\ CASE outcome = "error" ->
              /\ error' = "bgraFailed"
              /\ upload' = [upload EXCEPT ![u].stage = "failed"]
         [] outcome = "noctx" ->
              /\ error' = "canvasFailed"
              /\ upload' = [upload EXCEPT ![u].stage = "failed"]
         [] OTHER ->
              /\ upload' = [upload EXCEPT ![u].stage = "texload"]
              /\ UNCHANGED error
    /\ UNCHANGED <<gpu, pureVars, modelRef, children, released, material, uploadCount, resolved,
                   disposedTex, texMatrix, isBGRAFormat>>
    /\ UNCHANGED <<sceneVars, keyVars, cameraVars, loadVars, poseVars>>

\* the promise of getUpscaledImage settles for upload u: fulfilled (ok) runs
\* the then callback, rejected has no handler
UpscaleSettle(u, ok) ==
    /\ upload[u].stage = "upscale"
    /\ IF ok
       THEN /\ upload' = [upload EXCEPT ![u].stage = "texload", ![u].upscaled = TRUE]
            /\ isLoading' = FALSE
       ELSE /\ upload' = [upload EXCEPT ![u].stage = "crashed"]
            /\ UNCHANGED isLoading
    /\ UNCHANGED <<gpu, pureVars, modelRef, error, children, released, material, uploadCount,
                   resolved, disposedTex, texMatrix, isBGRAFormat>>
    /\ UNCHANGED <<sceneVars, keyVars, cameraVars, loadVars, poseVars>>

\* the TextureLoader of upload u settles: onLoad (ok) or onError
TextureSettle(u, ok) ==
    /\ upload[u].stage = "texload"
    /\ LET m == upload[u].model
           s == upload[u].surface
       IN  IF ok
           THEN /\ disposedTex' = IF material[m][s].map # 0
                                  THEN disposedTex \cup {material[m][s].map}
                                  ELSE disposedTex
                /\ texMatrix' = [texMatrix EXCEPT ![u] = TextureMatrix(s = "bottom")]
                /\ material' = [material EXCEPT ![m][s] = ApplyTexture(@, u)]
                /\ resolved' = Append(resolved, <<m, s, u>>)
                /\ upload' = [upload EXCEPT ![u].stage = "applied"]
                /\ UNCHANGED error
           ELSE /\ error' = "textureFailed"
                /\ upload' = [upload EXCEPT ![u].stage = "failed"]
                /\ UNCHANGED <<material, resolved, disposedTex, texMatrix>>
    /\ UNCHANGED <<gpu, pureVars, modelRef, children, released, uploadCount, isLoading, isBGRAFormat>>
    /\ UNCHANGED <<sceneVars, keyVars, cameraVars, loadVars, poseVars>>

\* ---------------------------------------------------- convertBGRAtoRGBA
\* byte values of a Uint8ClampedArray
Bytes == {0, 1, 255}

\* the data arrays an ImageData can hand over (a multiple of 4 long when it
\* comes from getImageData)
Buffers == UNION {[1..n -> Bytes] : n \in 0..MaxBytes}

\* data[j] for a 0-based index j: undefined past the end, which a
\* Uint8ClampedArray stores as 0
ReadByte(data, j) == IF j < Len(data) THEN data[j + 1] ELSE 0

\* data[j] = b for a 0-based index j: a write past the end is dropped
WriteByte(data, j, b) == [k \in 1..Len(data) |-> IF k = j + 1 THEN b ELSE data[k]]

\* a swap written as two assignments in a row, without a temporary
SwapChannelsInTurn(data, i) ==
    LET first == WriteByte(data, i, ReadByte(data, i + 2))
    IN  WriteByte(first, i + 2, ReadByte(first, i))

\* [data[i], data[i + 2]] = [data[i + 2], data[i]]
SwapChannels(data, i) ==
    LET right == <<ReadByte(data, i + 2), ReadByte(data, i)>>
    IN  WriteByte(WriteByte(data, i, right[1]), i + 2, right[2])

RECURSIVE ConvertFrom(_, _)
\* the for loop of convertBGRAtoRGBA from index i on
ConvertFrom(data, i) ==
    IF i < Len(data) THEN ConvertFrom(SwapChannels(data, i), i + 4) ELSE data

\* convertBGRAtoRGBA: the data array it leaves
ConvertBGRAtoRGBA(data) == ConvertFrom(data, 0)

\* ctx.putImageData(convertBGRAtoRGBA(imageData), 0, 0) on the ImageData in hand
ConvertImageData ==
    /\ conversions < MaxConversions
    /\ conversions' = conversions + 1
    /\ imageData' = ConvertBGRAtoRGBA(imageData)
    /\ UNCHANGED <<gpu, sourceData, searchModel, searchName, searched, targetMesh>>
    /\ UNCHANGED <<sceneVars, keyVars, cameraVars, loadVars, poseVars, texVars>>
    /\ UNCHANGED <<modelRef, error, children, released, material>>

\* ------------------------------------------------------------------ Init
\* the hook's refs and state after the first render
InitHook ==
    /\ gpu \in BOOLEAN
    /\ sceneRef = 0
    /\ rendererRef = "none"
    /\ rendererReadyRef = FALSE
    /\ cleanupRef = FALSE
    /\ modelRef = 0
    /\ animationFrameRef = 0
    /\ keysPressedRef = {}
    /\ isWebGPUEnabled = FALSE
    /\ error = "none"
    /\ isLoading = FALSE
    /\ modelLoading = FALSE
    /\ isBGRAFormat = FALSE
    /\ listeners = FALSE
    /\ frames = {}
    /\ initAwait = {}
    /\ sceneCount = 0
    /\ children = [s \in SceneIds |-> {}]
    /\ cameraPos = CameraStart
    /\ cameraQuat = QIdentity
    /\ ticks = 0
    /\ moveFrom = CameraStart
    /\ moveKeys = {}
    /\ keyEvents = 0
    /\ lastEvent = NoKeyEvents
    /\ lastHandled = NoKeyEvents
    /\ tornDown = FALSE
    /\ load = [m \in ModelIds |-> "none"]
    /\ loadFile = [m \in ModelIds |-> 1]
    /\ modelCount = 0
    /\ material = [m \in ModelIds |-> [s \in Surfaces |-> [map |-> 0, opacity |-> 1]]]
    /\ released = {}
    /\ modelQuat = [m \in ModelIds |-> QIdentity]
    /\ modelPos = [m \in ModelIds |-> Origin]
    /\ modelSpin = [m \in ModelIds |-> 0]
    /\ flipLog = [m \in ModelIds |-> <<>>]
    /\ flips = 0
    /\ upload = [u \in UploadIds |-> NoUpload]
    /\ uploadCount = 0
    /\ resolved = <<>>
    /\ disposedTex = {}
    /\ texMatrix = [u \in UploadIds |-> Identity3]

\* no ImageData in hand
NoImageData ==
    /\ imageData = <<>>
    /\ sourceData = <<>>
    /\ conversions = 0

\* no findMeshInModel call under way
NoSearch ==
    /\ searchModel = <<>>
    /\ searchName = <<>>
    /\ searched = FALSE
    /\ targetMesh = 0

Init == InitHook /\ NoImageData /\ NoSearch

\* ---------------------------------------------------------- specifications
SceneStep ==
    \/ InitScene
    \/ \E s \in SceneIds, ok \in BOOLEAN : InitResume(s, ok)
    \/ CleanupScene

KeyStep ==
    \/ \E k \in EventKeys : KeyDown(k)
    \/ \E k \in EventKeys : KeyUp(k)

TickStep == \E c \in SceneIds : Tick(c)

LoadStep ==
    \/ \E f \in FileIds : LoadSkateboardModel(f)
    \/ \E m \in ModelIds, ok \in BOOLEAN : LoadSettle(m, ok)

FlipStep == \E axis \in Axes : FlipModel(axis)

TextureStep ==
    \/ \E s \in Surfaces : LoadTexture(s)
    \/ \E b \in BOOLEAN : SetIsBGRAFormat(b)
    \/ \E u \in UploadIds, o \in {"error", "empty", "ok"} : ReadSettle(u, o)
    \/ \E u \in UploadIds, o \in {"error", "noctx", "ok"} : DecodeSettle(u, o)
    \/ \E u \in UploadIds, ok \in BOOLEAN : UpscaleSettle(u, ok)
    \/ \E u \in UploadIds, ok \in BOOLEAN : TextureSettle(u, ok)

Next == SceneStep \/ KeyStep \/ TickStep \/ LoadStep \/ FlipStep \/ TextureStep
Spec == Init /\ [][Next]_vars

\* scene lifecycle, key events and ticks
NextScene == SceneStep \/ KeyStep \/ TickStep
SpecScene == Init /\ [][NextScene]_vars

\* scene lifecycle and model loads
NextLoad == SceneStep \/ LoadStep
SpecLoad == Init /\ [][NextLoad]_vars

\* the component's mount: the first scene's set-up
SetUpScene == sceneCount = 0 /\ InitScene

\* scene lifecycle and key events
NextKeys == SceneStep \/ KeyStep
SpecKeys == Init /\ [][NextKeys]_vars

\* the first scene's set-up, key events and ticks
NextCamera ==
    \/ SetUpScene
    \/ \E s \in SceneIds, ok \in BOOLEAN : InitResume(s, ok)
    \/ KeyStep
    \/ TickStep
SpecCamera == Init /\ [][NextCamera]_vars

\* the first scene's set-up, loads of the default model and flips
NextFlip ==
    \/ SetUpScene
    \/ \E s \in SceneIds, ok \in BOOLEAN : InitResume(s, ok)
    \/ LoadSkateboardModel(1)
    \/ \E m \in ModelIds, ok \in BOOLEAN : LoadSettle(m, ok)
    \/ FlipStep
SpecFlip == Init /\ [][NextFlip]_vars

\* an ImageData of any content in hand, converted over and over
InitPixels ==
    /\ InitHook
    /\ imageData \in Buffers
    /\ sourceData = imageData
    /\ conversions = 0
    /\ NoSearch
NextPixels == ConvertImageData
SpecPixels == InitPixels /\ [][NextPixels]_vars

\* a scene graph of any shape and a name fragment, handed to findMeshInModel
InitSearch ==
    /\ InitHook
    /\ NoImageData
    /\ IsGraph(searchModel)
    /\ searchName \in ShortFrags
    /\ searched = FALSE
    /\ targetMesh = 0
NextSearch == FindMesh
SpecSearch == InitSearch /\ [][NextSearch]_vars

\* the first scene's set-up and teardown, loads of the default model, flips
\* about the default axis and upload requests
NextRequest ==
    \/ SetUpScene
    \/ \E s \in SceneIds, ok \in BOOLEAN : InitResume(s, ok)
    \/ CleanupScene
    \/ LoadSkateboardModel(1)
    \/ \E m \in ModelIds, ok \in BOOLEAN : LoadSettle(m, ok)
    \/ FlipModel("y")
    \/ \E s \in Surfaces : LoadTexture(s)
SpecRequest == Init /\ [][NextRequest]_vars

\* scene lifecycle, loads of the default model and uploads in the plain format
NextUpscale ==
    \/ SceneStep
    \/ LoadSkateboardModel(1)
    \/ \E m \in ModelIds, ok \in BOOLEAN : LoadSettle(m, ok)
    \/ \E s \in Surfaces : LoadTexture(s)
    \/ \E u \in UploadIds, o \in {"error", "empty", "ok"} : ReadSettle(u, o)
    \/ \E u \in UploadIds, ok \in BOOLEAN : UpscaleSettle(u, ok)
    \/ \E u \in UploadIds, ok \in BOOLEAN : TextureSettle(u, ok)
SpecUpscale == Init /\ [][NextUpscale]_vars

\* the first scene's set-up, loads of the default model and uploads in the
\* plain format, every load, read, super-resolution pass and texture load
\* succeeding
NextApply ==
    \/ SetUpScene
    \/ \E s \in SceneIds, ok \in BOOLEAN : InitResume(s, ok)
    \/ LoadSkateboardModel(1)
    \/ \E m \in ModelIds : LoadSettle(m, TRUE)
    \/ \E s \in Surfaces : LoadTexture(s)
    \/ \E u \in UploadIds : ReadSettle(u, "ok")
    \/ \E u \in UploadIds : UpscaleSettle(u, TRUE)
    \/ \E u \in UploadIds : TextureSettle(u, TRUE)
SpecApply == Init /\ [][NextApply]_vars

\* the first scene's set-up, model loads and texture uploads
NextTexture ==
    \/ SetUpScene
    \/ \E s \in SceneIds, ok \in BOOLEAN : InitResume(s, ok)
    \/ LoadStep
    \/ TextureStep
SpecTexture == Init /\ [][NextTexture]_vars

\* ------------------------------------------------------------------ claims
Neg(q) == <<-q[1], -q[2], -q[3], -q[4]>>

\* q and -q turn a model the same way
SameOrientation(p, q) == p = q \/ p = Neg(q)

\* the image of the texture load that resolved last on surface s of model m,
\* 0 when none has
LastResolved(m, s) ==
    LET hits == {i \in 1..Len(resolved) : resolved[i][1] = m /\ resolved[i][2] = s}
    IN  IF hits = {} THEN 0
        ELSE resolved[CHOOSE i \in hits : \A j \in hits : j <= i][3]

\* C1: when the load of a model that lacks a base, top_sticker or
\* bottom_sticker mesh ends, the error is the load-failure message, the cached
\* model reference is null and the scene holds no deck model.
C1_FailedLoadLeavesNoModel ==
    [][\A m \in ModelIds :
          (/\ load[m] = "pending"
           /\ load'[m] = "failed"
           /\ ~HasAllMeshes(ModelFiles[loadFile[m]]))
          => (/\ error' = "modelLoadFailed"
              /\ modelRef' = 0
              /\ children'[sceneRef'] = {})]_vars

\* C2: while the scene is initialised it holds at most one deck model, and a
\* model it holds is the one the cached model reference names.
C2_OneModelAttached ==
    (sceneRef # 0 /\ rendererReadyRef)
    => (/\ Cardinality(children[sceneRef]) <= 1
        /\ children[sceneRef] \subseteq {modelRef})

\* C3: once cleanupScene has been called after an initScene call, no frame
\* callback is scheduled, the listeners are unbound, the held-key set is empty
\* and the cached model reference is null.
C3_TeardownComplete ==
    tornDown => (/\ frames = {}
                 /\ ~listeners
                 /\ keysPressedRef = {}
                 /\ modelRef = 0)

\* C4: every failure inside a model load or a texture upload ends with the
\* error message set: a load that fails leaves the load-failure message, an
\* upload that fails leaves one of the upload failure messages.
C4_FailuresSetError ==
    [][/\ \A m \in ModelIds :
            (load[m] = "pending" /\ load'[m] = "failed") => error' = "modelLoadFailed"
       /\ \A u \in UploadIds :
            (/\ upload[u].stage \notin {"failed", "crashed"}
             /\ upload'[u].stage \in {"failed", "crashed"})
            => error' \in {"readError", "readFailed", "noStickerLayer", "bgraFailed",
                           "canvasFailed", "upscaleFailed", "textureFailed"}]_vars

\* C5: the image on a sticker material is the one whose texture load resolved
\* last on it, whatever the order in which the uploads were started.
C5_LastResolvedWins ==
    \A m \in ModelIds, s \in Surfaces :
        LastResolved(m, s) # 0 => material[m][s].map = LastResolved(m, s)

\* two uploads for one surface of one model were in flight together and the
\* one started first resolved last and is the image shown
C5_Witness ==
    \E m \in ModelIds, s \in Surfaces :
        /\ Len(resolved) = 2
        /\ resolved[1] = <<m, s, 2>>
        /\ resolved[2] = <<m, s, 1>>
        /\ material[m][s].map = 1

\* C6: a sticker material of a loaded model has opacity 1 and an image when a
\* texture load has resolved on it, and opacity 0 and no image otherwise.
C6_OpacityFollowsImage ==
    \A m \in ModelIds, s \in Surfaces :
        load[m] = "loaded"
        => (/\ material[m][s].opacity = (IF LastResolved(m, s) # 0 THEN 1 ELSE 0)
            /\ (material[m][s].map # 0) <=> (LastResolved(m, s) # 0))

\* a loaded model with an image on one sticker and none yet on the other
C6_Witness ==
    \E m \in ModelIds :
        /\ load[m] = "loaded"
        /\ material[m]["top"] = [map |-> 1, opacity |-> 1]
        /\ material[m]["bottom"] = [map |-> 0, opacity |-> 0]
        /\ \E u \in UploadIds : upload[u].stage = "texload" /\ upload[u].surface = "bottom"

\* C7 as stated: the held-key set is a subset of {w, a, s, d}; while the
\* listeners are bound it holds a key exactly when the last key event for that
\* letter (here: the last one the handlers received) was a key-down; it is
\* empty after teardown.
C7_KeysFollowLastEvent ==
    /\ keysPressedRef \subseteq MoveKeys
    /\ listeners => \A k \in MoveKeys : (k \in keysPressedRef) <=> (lastEvent[k] = "down")
    /\ ~listeners => keysPressedRef = {}

\* C7 as amended: the held-key set is a subset of {w, a, s, d}; while the
\* listeners are bound it holds a key exactly when the last key event for that
\* letter that the handlers received since the last teardown was a key-down;
\* it is empty while they are unbound.
C7_KeysFollowHandledEvents ==
    /\ keysPressedRef \subseteq MoveKeys
    /\ listeners => \A k \in MoveKeys : (k \in keysPressedRef) <=> (lastHandled[k] = "down")
    /\ ~listeners => keysPressedRef = {}

\* a key went down and up again while the listeners were bound, another is held
C7_Witness ==
    /\ listeners
    /\ \E j, k \in MoveKeys :
        /\ lastHandled[j] = "up" /\ j \notin keysPressedRef
        /\ lastHandled[k] = "down" /\ k \in keysPressedRef

Held(keys, k) == IF k \in keys THEN 1 ELSE 0

\* C8: the locomotion step of a tick displaces the camera by
\* speed * ([w] - [s]) * F + speed * ([a] - [d]) * L, F and L being the
\* horizontal-projected forward and left vectors of that tick.
C8_DisplacementIsSum ==
    cameraPos =
        VAdd(moveFrom,
             VAdd(VScale(CameraForward(cameraQuat), Held(moveKeys, "w") - Held(moveKeys, "s")),
                  VScale(CameraLeft(cameraQuat), Held(moveKeys, "a") - Held(moveKeys, "d"))))

\* a tick with forward and left held moved the camera by a vector of squared
\* length 2 (in unit-vector steps): the diagonal is not re-normalised
C8_Witness ==
    LET d == VAdd(cameraPos, VScale(moveFrom, -1))
    IN  /\ ticks > 0
        /\ moveKeys = {"w", "a"}
        /\ cameraQuat = QYaw
        /\ Dot(d, d) = 2 * Unit * Unit

\* C9: the locomotion step of a tick leaves the camera's vertical coordinate
\* as it was, for every orientation and every held-key set.
C9_NoVerticalMove == cameraPos[2] = moveFrom[2]

\* a tick moved a rolled camera, whose left vector points partly downward,
\* and a tick with forward held left a camera looking straight down in place
C9_Witness ==
    /\ ticks > 0
    /\ moveKeys # {}
    /\ \/ cameraQuat = QRoll /\ "a" \in moveKeys /\ cameraPos # moveFrom
       \/ cameraQuat = QDown /\ moveKeys = {"w"} /\ cameraPos = moveFrom

\* the orientation and the position flip i of model m left
QuatAfterFlip(m, i) == IF i < Len(flipLog[m]) THEN flipLog[m][i + 1].quat ELSE modelQuat[m]
PosAfterFlip(m, i) == IF i < Len(flipLog[m]) THEN flipLog[m][i + 1].pos ELSE modelPos[m]

\* C10: two flipModel calls in a row about one axis leave the model in the
\* orientation it had before the first, and every flip leaves the model's
\* position as it was.
C10_FlipTwiceRestores ==
    \A m \in ModelIds : \A i \in 1..Len(flipLog[m]) :
        /\ PosAfterFlip(m, i) = flipLog[m][i].pos
        /\ (i < Len(flipLog[m]) /\ flipLog[m][i + 1].axis = flipLog[m][i].axis)
           => SameOrientation(QuatAfterFlip(m, i + 1), flipLog[m][i].quat)

\* a model was flipped twice about x: the first flip turned it, the second
\* turned it back
C10_Witness ==
    \E m \in ModelIds :
        /\ Len(flipLog[m]) = 2
        /\ flipLog[m][1].axis = "x"
        /\ flipLog[m][2].axis = "x"
        /\ ~SameOrientation(flipLog[m][2].quat, flipLog[m][1].quat)
        /\ SameOrientation(modelQuat[m], flipLog[m][1].quat)
        /\ modelPos[m] = ModelStart

\* what a refused request has to leave alone: scene, model, material, camera
\* and loading-flag state
RefusedLeaves ==
    UNCHANGED <<sceneRef, rendererRef, rendererReadyRef, cleanupRef, animationFrameRef,
                listeners, frames, initAwait, modelRef, children, released, material,
                load, modelQuat, modelPos, modelSpin, cameraPos, cameraQuat,
                isLoading, modelLoading, upload, resolved, disposedTex>>

\* C11: flipModel, loadTopTexture or loadBottomTexture called while no model is
\* loaded, and loadSkateboardModel called while the scene is not initialised,
\* set the error message of that request and change no scene, model, material,
\* camera or loading-flag state; the same request made with its precondition
\* met goes through whatever the error message was.
C11_RefusedRequestsChangeNothing ==
    [][/\ (modelRef = 0 /\ \E axis \in Axes : FlipModel(axis))
            => (error' = "flipNoModel" /\ RefusedLeaves)
       /\ (modelRef = 0 /\ \E s \in Surfaces : LoadTexture(s))
            => (error' = "noModel" /\ RefusedLeaves)
       /\ ((sceneRef = 0 \/ ~rendererReadyRef) /\ \E f \in FileIds : LoadSkateboardModel(f))
            => (error' = "sceneNotInit" /\ RefusedLeaves)
       /\ (modelRef # 0 /\ \E axis \in Axes : FlipModel(axis))
            => (error' = "none" /\ Len(flipLog'[modelRef]) = Len(flipLog[modelRef]) + 1)
       /\ (modelRef # 0 /\ \E s \in Surfaces : LoadTexture(s))
            => (isLoading' /\ uploadCount' = uploadCount + 1)
       /\ (sceneRef # 0 /\ rendererReadyRef /\ \E f \in FileIds : LoadSkateboardModel(f))
            => (error' = "none" /\ modelLoading' /\ load'[modelCount'] = "pending")]_vars

\* with no teardown and one model ever loaded, one of two flips was refused
\* (before the model was there) and the later one turned the model; an upload
\* request has gone through since
C11_Witness ==
    /\ ~tornDown
    /\ modelCount = 1
    /\ modelRef = 1
    /\ flips = 2
    /\ Len(flipLog[1]) = 1
    /\ uploadCount = 1
    /\ isLoading
    /\ error = "none"

\* C12: for every pixel buffer whose length is a multiple of 4, applying
\* convertBGRAtoRGBA twice leaves a buffer equal byte for byte to the original.
C12_ConvertTwiceRestores ==
    (Len(sourceData) % 4 = 0 /\ conversions = 2) => imageData = sourceData

\* a two-pixel buffer whose red and blue bytes differ in both pixels has been
\* converted twice
C12_Witness ==
    /\ conversions = 2
    /\ Len(sourceData) = 8
    /\ sourceData[1] # sourceData[3]
    /\ sourceData[5] # sourceData[7]
    /\ sourceData[2] # sourceData[4]
    /\ imageData = sourceData

RECURSIVE PathTo(_, _)
\* the child positions that lead from the root of g to node n
PathTo(g, n) ==
    IF n = 1 THEN <<>>
    ELSE LET p == CHOOSE q \in 1..Len(g) : \E k \in 1..Len(g[q].kids) : g[q].kids[k] = n
             k == CHOOSE j \in 1..Len(g[p].kids) : g[p].kids[j] = n
         IN  Append(PathTo(g, p), k)

\* depth-first order: a node comes before its descendants, and a subtree
\* before the subtrees of its later siblings
VisitedBefore(g, a, b) ==
    LET pa == PathTo(g, a)
        pb == PathTo(g, b)
    IN  /\ a # b
        /\ \/ Len(pa) < Len(pb) /\ SubSeq(pb, 1, Len(pa)) = pa
           \/ \E i \in 1..Len(pa) :
                /\ i <= Len(pb)
                /\ SubSeq(pa, 1, i - 1) = SubSeq(pb, 1, i - 1)
                /\ pa[i] < pb[i]

\* the mesh nodes of g whose name contains frag
Matches(g, frag) == {n \in 1..Len(g) : g[n].mesh /\ Includes(g[n].name, frag)}

\* C13: findMeshInModel returns the mesh node visited last in depth-first
\* order among those whose name contains the fragment, never a non-mesh node
\* or a node whose name lacks the fragment, and null when no mesh matches.
C13_LastMatchingMesh ==
    searched =>
        IF Matches(searchModel, searchName) = {}
        THEN targetMesh = 0
        ELSE /\ targetMesh \in Matches(searchModel, searchName)
             /\ \A h \in Matches(searchModel, searchName) \ {targetMesh} :
                    VisitedBefore(searchModel, h, targetMesh)

\* the mesh returned is not the matching mesh of highest index, and a node
\* that is no mesh but has a matching name was visited after it
C13_Witness ==
    /\ searched
    /\ targetMesh # 0
    /\ \E h \in Matches(searchModel, searchName) : h > targetMesh
    /\ \E n \in 1..Len(searchModel) :
        /\ ~searchModel[n].mesh
        /\ Includes(searchModel[n].name, searchName)
        /\ VisitedBefore(searchModel, targetMesh, n)

\* C14: the top-surface UV transform (scale 1.01 x 3.735, rotation 90 degrees,
\* pivot (0.5, 0.5), offsets (0.5 - scaleX/2, 0.5 - scaleY/2)) maps the UV
\* point (0.5, 0.5) to (0.5, 0.5).
C14_TopTransformFixesPivot ==
    \A u \in UploadIds :
        (upload[u].stage = "applied" /\ upload[u].surface = "top")
        => TransformUv(texMatrix[u], <<Half, Half>>) = <<Half, Half>>

\* C14 as amended: the top-surface UV transform maps the UV point (0.5, 0.5)
\* to (0.5 + (0.5 - scaleX/2), 0.5 + (0.5 - scaleY/2)) = (0.495, -0.8675): the
\* pivot moved by the two offsets.
C14_TopTransformShiftsPivot ==
    \A u \in UploadIds :
        (upload[u].stage = "applied" /\ upload[u].surface = "top")
        => TransformUv(texMatrix[u], <<Half, Half>>) = <<4950, -8675>>

\* an image has been applied to the top sticker with its transform
C14_Witness ==
    \E u \in UploadIds, m \in ModelIds :
        /\ upload[u].stage = "applied"
        /\ upload[u].surface = "top"
        /\ material[m]["top"].map = u
        /\ texMatrix[u] # Identity3

\* the top transform of the claim, point by point: scaled by 1.01 x 3.735 and
\* turned 90 degrees about the pivot, then moved by the offsets
TopUvOf(p) ==
    LET du == p[1] - 5000
        dv == p[2] - 5000
    IN  <<(10100 * dv) \div 10000 + 5000 + (5000 - 5050),
          ((-37350) * du) \div 10000 + 5000 + (5000 - 18675)>>

\* the bottom transform of the claim, point by point: translate(-0.5, -0.5),
\* then rotate 90 degrees, then scale(1.01, 4.1), then translate(0.5, 0.045)
BottomUvOf(p) ==
    LET p1 == <<p[1] - 5000, p[2] - 5000>>
        p2 == <<p1[2], -p1[1]>>
        p3 == <<(10100 * p2[1]) \div 10000, (41000 * p2[2]) \div 10000>>
    IN  <<p3[1] + 5000, p3[2] + 450>>

\* C15: the UV transform of the texture on a surface is that surface's fixed
\* transform built from the identity, whatever was applied before and whatever
\* the other surface carries (an affine map is fixed by the corners it sends
\* the unit square to).
C15_TransformIsFixed ==
    \A m \in ModelIds, s \in Surfaces :
        material[m][s].map # 0 =>
            \A p \in {<<0, 0>>, <<Den, 0>>, <<0, Den>>, <<Den, Den>>} :
                TransformUv(texMatrix[material[m][s].map], p)
                    = (IF s = "top" THEN TopUvOf(p) ELSE BottomUvOf(p))

\* a second image has replaced the first on the bottom sticker of a model
C15_Witness ==
    \E m \in ModelIds :
        /\ Len(resolved) = 2
        /\ resolved[1][1] = m /\ resolved[1][2] = "bottom"
        /\ resolved[2][1] = m /\ resolved[2][2] = "bottom"
        /\ material[m]["bottom"].map = resolved[2][3]

\* C16: getUpscaledImage is called only while the renderer in use is the
\* WebGPU renderer; when navigator.gpu is missing or renderer.init() failed and
\* the WebGL renderer is in use, an upload whose file was read goes on without
\* the super-resolution pass and its image stays the original.
C16_UpscaleOnlyOnWebGPU ==
    [][\A u \in UploadIds :
          /\ (upload[u].stage # "upscale" /\ upload'[u].stage = "upscale")
                => (rendererRef = "webgpu" /\ gpu)
          /\ (/\ upload[u].stage = "read"
              /\ upload'[u].stage \notin {"read", "failed", "crashed"}
              /\ rendererRef # "webgpu")
                => (upload'[u].stage = "texload" /\ ~upload'[u].upscaled)
          /\ (upload'[u].upscaled /\ ~upload[u].upscaled) => upload[u].stage = "upscale"
          /\ (upload[u].upscaled /\ upload[u].stage # "none") => upload'[u].upscaled]_vars

\* navigator.gpu is there but renderer.init() failed: a top image went onto
\* the sticker as it was read, under the WebGL renderer
C16_Witness ==
    \E u \in UploadIds :
        /\ gpu
        /\ rendererRef = "webgl"
        /\ sceneCount = 1
        /\ upload[u].stage = "applied"
        /\ upload[u].surface = "top"
        /\ ~upload[u].upscaled

\* C17: a model-load or texture-load completion that resolves after scene
\* teardown does not set the cached model reference, attach anything to the
\* torn-down scene or change any material; the cached model reference stays
\* null from teardown until the next initScene.
C17_StaleCompletionsGuarded ==
    [][tornDown =>
          /\ \A m \in ModelIds :
                (load[m] = "pending" /\ load'[m] # "pending")
                => (modelRef' = modelRef /\ children' = children /\ material' = material)
          /\ \A u \in UploadIds :
                (upload[u].stage = "texload" /\ upload'[u].stage # "texload")
                => material' = material
          /\ tornDown' => modelRef' = 0]_vars

\* C18: whatever the interleaving of initScene and cleanupScene calls, at most
\* one frame callback chain has a frame scheduled, so the tick runs at most
\* once per display refresh.
C18_OneFrameChain == Cardinality(frames) <= 1

\* C19: by the time a model is replaced or the scene is torn down, every
\* geometry, material and texture of that model is released: a step that
\* releases a model's geometry and materials leaves the texture on each of its
\* sticker materials released too.
C19_NothingLeaked ==
    [][\A m \in ModelIds :
          (m \notin released /\ m \in released')
          => \A s \in Surfaces :
                 material[m][s].map # 0 => material[m][s].map \in disposedTex']_vars

\* C20: every loadTopTexture / loadBottomTexture request that raised the
\* loading flag is followed by the flag being cleared once its asynchronous
\* steps have settled: with no file read, image decode or super-resolution
\* pass outstanding, the loading flag is down.
C20_LoadingFlagCleared ==
    (\A u \in UploadIds : upload[u].stage \notin {"read", "decode", "upscale"})
    => ~isLoading

\* C21: a texture that finishes loading is applied to the sticker material of
\* the model that is current at that moment: the onLoad callback of
\* loadTextureFromUrl never writes its image or opacity onto a material of a
\* model that loadSkateboardModel has already replaced and released.
C21_CompletionWritesLiveModel ==
    [][\A u \in UploadIds :
          (upload[u].stage = "texload" /\ upload'[u].stage = "applied")
          => /\ upload[u].model \notin released
             /\ upload[u].model = modelRef]_vars

\* C22: once initScene has run to its end, the WebGPU flag handed to the
\* component is true exactly when the renderer in use is the WebGPU renderer,
\* also when navigator.gpu is there but renderer.init() rejected and the WebGL
\* renderer took over.
C22_FlagMatchesRenderer ==
    (sceneCount > 0 /\ initAwait = {} /\ rendererReadyRef)
    => (isWebGPUEnabled <=> rendererRef = "webgpu")

====
